---------------------------- MODULE Spec2Model ----------------------------
(***************************************************************************)
(* A model of kayak_core's WidgetManager (kayak_core/src/widget_manager.rs) *)
(* and of the host-diff signal of src/widget.rs.                           *)
(*                                                                         *)
(* Conventions.                                                            *)
(*   Option<T>      None is << >>, Some(x) is <<x>>.                       *)
(*   Index          the arena never frees a slot, so the identity of the   *)
(*                  n-th inserted widget is n (1-based); arena iteration   *)
(*                  order is insertion order.                              *)
(*   usize index    child indices are 0-based as in the source.            *)
(*   HashMap<K,V>   a function whose domain is the set of keys.            *)
(*   IndexSet<T>    a sequence without duplicates (insertion order).       *)
(*   f32 z values   counted in tenths (1.0 is 10, 0.1 is 1), so that the   *)
(*                  sequencer's +1.0 / -0.1 / +0.1 stay exact integers.    *)
(*   StyleProp<T>   <<"Default">>, <<"Inherit">> or <<"Value", v>>.        *)
(*   panic          an operation that panics leaves the manager as it was  *)
(*                  and sets panicked; nothing runs after a panic.         *)
(***************************************************************************)
EXTENDS Integers, Sequences, FiniteSets, TLC

VARIABLES
    wm,         \* the WidgetManager: a record of its fields
    held,       \* widgets taken out of their slots and not yet repossessed
    assets,     \* whether the font asset is loaded (Assets / Binding<KayakFont>)
    panicked,   \* a panic unwound the program
    last,       \* the last operation: its arguments, result and observations
    issued,     \* history: (parent, child index) -> identity returned by the
                \* first create_widget call made there
    threads     \* positions of the threads: who holds the lock of dirty_nodes,
                \* the callback that is running, the render pass in progress

vars == <<wm, held, assets, panicked, last, issued, threads>>

----------------------------------------------------------------------------
(* Bounds of the model.                                                    *)

\* widgets created in the lifecycle specification
MaxWidgets == 3
\* child indices passed to create_widget run over 0..MaxIndex
MaxIndex == 1
\* widgets callers hold at a time
MaxHeld == 1

----------------------------------------------------------------------------
(* Option, HashMap, IndexSet.                                              *)

None == << >>

Some(x) == <<x>>

IsSome(o) == o # << >>

Unwrap(o) == o[1]

EmptyMap == [k \in {} |-> k]

MapPut(f, k, v) == [x \in (DOMAIN f) \cup {k} |-> IF x = k THEN v ELSE f[x]]

MapGet(f, k) == IF k \in DOMAIN f THEN Some(f[k]) ELSE None

Range(s) == {s[i] : i \in DOMAIN s}

IndexSetInsert(s, x) == IF x \in Range(s) THEN s ELSE Append(s, x)

RECURSIVE Concat(_)
Concat(ss) == IF ss = << >> THEN << >> ELSE Head(ss) \o Concat(Tail(ss))

----------------------------------------------------------------------------
(* Styles.  Three properties are modelled: render_command, width, height.  *)

Default == <<"Default">>

Inherit == <<"Inherit">>

Value(v) == <<"Value", v>>

StyleProps == {"render_command", "width", "height"}

\* RenderCommand kinds; RenderCommand::default() is Empty.
RenderCommands == {"Empty", "Clip", "Quad", "Text"}

\* StyleProp::resolve of a render_command: the value, or the kind's default.
resolve(prop) == IF prop[1] = "Value" THEN prop[2] ELSE "Empty"

\* Style::default(): every property unset.
Style_default == [render_command |-> Default, width |-> Default, height |-> Default]

\* Style::new_default(): the fixed default baseline used as inheritance source.
Style_new_default == [render_command |-> Default, width |-> Default, height |-> Default]

\* Style::initial(): the initial-value baseline.  Width and height have no
\* concrete initial value: they are what text auto-sizing later finds unset.
Style_initial == [render_command |-> Value("Empty"), width |-> Default, height |-> Default]

\* Style::apply: fill every unset property from other.
Style_apply(s, other) == [p \in StyleProps |-> IF s[p] = Default THEN other[p] ELSE s[p]]

\* Style::inherit: overwrite every inherit-marked property with other's.
Style_inherit(s, other) == [p \in StyleProps |-> IF s[p] = Inherit THEN other[p] ELSE s[p]]

MkStyle(rc, w, h) == [render_command |-> rc, width |-> w, height |-> h]

\* A widget: its declared style, its declared focusability, and the id set_id gave it.
MkWidget(styles, focusable) == [styles |-> styles, focusable |-> focusable, id |-> 0]

set_id(widget, id) == [widget EXCEPT !.id = id]

----------------------------------------------------------------------------
(* Tree (crate::tree::Tree).                                               *)

Tree_default == [root_node |-> None, parents |-> EmptyMap, children |-> EmptyMap]

Tree_is_empty(t) == t.root_node = None

\* Tree::add: register the parent/child edge, appending to the parent's
\* children; a parentless identity becomes the root.  The root is the
\* first-created identity; whether a later parentless insertion replaces
\* root_node is left open (keepRoot).
Tree_add(t, index, parent, keepRoot) ==
    IF IsSome(parent)
    THEN LET p == Unwrap(parent)
             old == IF p \in DOMAIN t.children THEN t.children[p] ELSE << >>
         IN [t EXCEPT !.parents = MapPut(t.parents, index, p),
                      !.children = MapPut(t.children, p, Append(old, index))]
    ELSE IF IsSome(t.root_node) /\ keepRoot
         THEN t
         ELSE [t EXCEPT !.root_node = Some(index)]

\* LayoutCache::add: a placeholder rect for the new identity.
LayoutCache_add(lc, id) == [lc EXCEPT !.rect = MapPut(lc.rect, id, <<0, 0>>)]

----------------------------------------------------------------------------
(* FocusTracker and FocusTree.                                             *)

\* FocusTracker::set_focusability: store the declared eligibility of index.
set_focusable(m, focusable, index, is_parent) ==
    [m EXCEPT !.focus_tracker = MapPut(m.focus_tracker, index, focusable)]

\* FocusTracker::get_focusability.
get_focusable(m, index) ==
    IF index \in DOMAIN m.focus_tracker THEN m.focus_tracker[index] ELSE None

FocusTree_default == [ids |-> {}, current_focus |-> None]

FocusTree_clear(ft) == [ids |-> {}, current_focus |-> None]

FocusTree_add(ft, index) == [ft EXCEPT !.ids = ft.ids \cup {index}]

FocusTree_contains(ft, index) == index \in ft.ids

FocusTree_focus(ft, index) == [ft EXCEPT !.current_focus = Some(index)]

----------------------------------------------------------------------------
(* WidgetManager::new.                                                     *)

WidgetManager_new ==
    [current_widgets |-> << >>,
     dirty_render_nodes |-> << >>,
     dirty_nodes |-> << >>,
     nodes |-> << >>,
     widget_lifetimes |-> {},
     tree |-> Tree_default,
     node_tree |-> Tree_default,
     layout_cache |-> [rect |-> EmptyMap],
     focus_tree |-> FocusTree_default,
     focus_tracker |-> EmptyMap,
     current_z |-> 0]

Ids(m) == 1..Len(m.current_widgets)

----------------------------------------------------------------------------
(* create_widget, take, repossess.  Each operator returns the manager      *)
(* after the call with the call's result.                                  *)

\* The slot lookup of create_widget: the identity at (parent, index), if any.
create_widget_lookup(m, index, parent) ==
    IF IsSome(parent)
    THEN IF Unwrap(parent) \in DOMAIN m.tree.children
         THEN LET parent_children == m.tree.children[Unwrap(parent)]
              IN IF index + 1 <= Len(parent_children)
                 THEN Some(parent_children[index + 1])
                 ELSE None
         ELSE None
    ELSE None

\* The update branch without the render-dirty mark.
create_widget_update_unmarked(m, index, widget, widget_id) ==
    LET m1 == IF Tree_is_empty(m.tree)
              THEN set_focusable(m, Some(TRUE), widget_id, TRUE)
              ELSE set_focusable(m, widget.focusable, widget_id, TRUE)
    IN IF m.current_widgets[widget_id] = None
       THEN [m |-> m, panic |-> TRUE, ret |-> widget_id, created |-> FALSE]
       ELSE [m |-> [m1 EXCEPT !.current_widgets[widget_id] = Some(set_id(widget, widget_id))],
             panic |-> FALSE, ret |-> widget_id, created |-> FALSE]

\* The update branch: overwrite the slot's widget in place.
create_widget_update(m, index, widget, widget_id) ==
    LET m1 == IF Tree_is_empty(m.tree)
              THEN set_focusable(m, Some(TRUE), widget_id, TRUE)
              ELSE set_focusable(m, widget.focusable, widget_id, TRUE)
    IN IF m.current_widgets[widget_id] = None
       THEN [m |-> m, panic |-> TRUE, ret |-> widget_id, created |-> FALSE]
       ELSE [m |-> [m1 EXCEPT
                      !.current_widgets[widget_id] = Some(set_id(widget, widget_id)),
                      !.dirty_render_nodes = IndexSetInsert(m.dirty_render_nodes, widget_id)],
             panic |-> FALSE, ret |-> widget_id, created |-> FALSE]

\* The create branch: a new arena slot, NodeRecord and layout placeholders,
\* the tree edge and the focus eligibility.
create_widget_insert(m, index, widget, parent, keepRoot) ==
    LET focusable == IF Tree_is_empty(m.tree) THEN Some(TRUE) ELSE widget.focusable
        widget_id == Len(m.current_widgets) + 1
        m1 == [m EXCEPT
                 !.current_widgets = Append(m.current_widgets, Some(set_id(widget, widget_id))),
                 !.nodes = Append(m.nodes, None),
                 !.dirty_render_nodes = IndexSetInsert(m.dirty_render_nodes, widget_id),
                 !.tree = Tree_add(m.tree, widget_id, parent, keepRoot),
                 !.layout_cache = LayoutCache_add(m.layout_cache, widget_id)]
    IN [m |-> set_focusable(m1, focusable, widget_id, TRUE),
        panic |-> FALSE, ret |-> widget_id, created |-> TRUE]

create_widget(m, index, widget, parent, keepRoot) ==
    LET widget_id == create_widget_lookup(m, index, parent)
    IN IF IsSome(widget_id)
       THEN create_widget_update(m, index, widget, Unwrap(widget_id))
       ELSE create_widget_insert(m, index, widget, parent, keepRoot)

\* A take that leaves the widget in its slot.
take_keeping(m, id) ==
    IF m.current_widgets[id] = None
    THEN [m |-> m, panic |-> TRUE, ret |-> None]
    ELSE [m |-> m, panic |-> FALSE, ret |-> m.current_widgets[id]]

\* take: Option::take on the slot, then unwrap.
take(m, id) ==
    IF m.current_widgets[id] = None
    THEN [m |-> m, panic |-> TRUE, ret |-> None]
    ELSE [m |-> [m EXCEPT !.current_widgets[id] = None],
          panic |-> FALSE, ret |-> m.current_widgets[id]]

\* repossess: put the widget back into the slot its id names.
repossess(m, widget) == [m EXCEPT !.current_widgets[widget.id] = Some(widget)]

----------------------------------------------------------------------------
(* Accessors.                                                              *)

get_layout(m, id) == MapGet(m.layout_cache.rect, id)

\* The declared style of a widget resolves to a non-Empty render command.
declares_renderable(widget) ==
    IsSome(widget.styles) /\ resolve(Unwrap(widget.styles).render_command) # "Empty"

\* get_valid_parent stopping at the first ancestor that has a NodeRecord,
\* whatever its render command.
RECURSIVE get_valid_parent_any_record(_, _)
get_valid_parent_any_record(m, node_id) ==
    IF node_id \in DOMAIN m.tree.parents
    THEN LET parent_id == m.tree.parents[node_id]
         IN IF IsSome(m.nodes[parent_id])
            THEN Some(parent_id)
            ELSE get_valid_parent_any_record(m, parent_id)
    ELSE None

\* get_valid_parent: walk the full tree upward to the first ancestor whose
\* NodeRecord exists and resolves to a non-Empty render command.
RECURSIVE get_valid_parent(_, _)
get_valid_parent(m, node_id) ==
    IF node_id \in DOMAIN m.tree.parents
    THEN LET parent_id == m.tree.parents[node_id]
         IN IF IsSome(m.nodes[parent_id])
               /\ resolve(Unwrap(m.nodes[parent_id]).resolved_styles.render_command) # "Empty"
            THEN Some(parent_id)
            ELSE get_valid_parent(m, parent_id)
    ELSE None

\* get_valid_node_children that drops an Empty child together with its subtree.
RECURSIVE get_valid_node_children_no_splice(_, _)
get_valid_node_children_no_splice(m, node_id) ==
    IF node_id \in DOMAIN m.tree.children
    THEN LET node_children == m.tree.children[node_id]
         IN Concat([i \in DOMAIN node_children |->
                LET child_id == node_children[i]
                IN IF IsSome(m.current_widgets[child_id])
                      /\ declares_renderable(Unwrap(m.current_widgets[child_id]))
                   THEN <<child_id>>
                   ELSE << >>])
    ELSE << >>

\* get_valid_node_children: the full-tree children of node_id, each Empty or
\* style-less child replaced by its own valid children; a child whose widget
\* is out of its slot is skipped with its subtree.
RECURSIVE get_valid_node_children(_, _)
get_valid_node_children(m, node_id) ==
    IF node_id \in DOMAIN m.tree.children
    THEN LET node_children == m.tree.children[node_id]
         IN Concat([i \in DOMAIN node_children |->
                LET child_id == node_children[i]
                IN IF IsSome(m.current_widgets[child_id])
                   THEN IF declares_renderable(Unwrap(m.current_widgets[child_id]))
                        THEN <<child_id>>
                        ELSE get_valid_node_children(m, child_id)
                   ELSE << >>])
    ELSE << >>

\* bind: register a subscription of id on the font asset.
bind(m, id) == [m EXCEPT !.widget_lifetimes = m.widget_lifetimes \cup {id}]

----------------------------------------------------------------------------
(* The render pass.                                                        *)

\* The text content of the model measures 80 x 20 pixels unwrapped.
TextWidth == 80

TextHeight == 20

\* KayakFont::measure against the available box: the content's own size when
\* it fits the box's width, else the box's width and one more line.
font_measure(parent_size) ==
    IF TextWidth <= parent_size[1]
    THEN <<TextWidth, TextHeight>>
    ELSE <<parent_size[1], 2 * TextHeight>>

\* RenderPrimitive::from(&Style): the primitive kind of the resolved command.
RenderPrimitive_from(styles) == [kind |-> resolve(styles.render_command)]

\* create_primitive overwriting width and height with the measurement even
\* when the cascade set them.
create_primitive_overwrite(m, id, styles, font) ==
    LET render_primitive == RenderPrimitive_from(styles)
    IN IF render_primitive.kind = "Text"
       THEN LET m1 == bind(m, id)
                parent_id == get_valid_parent(m1, id)
                parent_layout == IF IsSome(parent_id)
                                 THEN get_layout(m1, Unwrap(parent_id)) ELSE None
            IN IF font /\ IsSome(parent_id) /\ IsSome(parent_layout)
               THEN LET measurement == font_measure(Unwrap(parent_layout))
                    IN [m |-> m1,
                        styles |-> [styles EXCEPT !.width = Value(measurement[1]),
                                                  !.height = Value(measurement[2])],
                        primitive |-> render_primitive,
                        valid_parent |-> parent_id, parent_layout |-> parent_layout]
               ELSE [m |-> m1, styles |-> styles, primitive |-> render_primitive,
                     valid_parent |-> parent_id, parent_layout |-> parent_layout]
       ELSE [m |-> m, styles |-> styles, primitive |-> render_primitive,
             valid_parent |-> None, parent_layout |-> None]

\* create_primitive: build the primitive of the cascaded style; a Text
\* primitive binds to its font and, when the font is loaded and the nearest
\* valid parent has a layout rect, fills an unset width and height with the
\* measured pixels.  valid_parent and parent_layout report what it saw.
create_primitive(m, id, styles, font) ==
    LET render_primitive == RenderPrimitive_from(styles)
    IN IF render_primitive.kind = "Text"
       THEN LET m1 == bind(m, id)
                parent_id == get_valid_parent(m1, id)
                parent_layout == IF IsSome(parent_id)
                                 THEN get_layout(m1, Unwrap(parent_id)) ELSE None
            IN IF font /\ IsSome(parent_id) /\ IsSome(parent_layout)
               THEN LET measurement == font_measure(Unwrap(parent_layout))
                    IN [m |-> m1,
                        styles |-> [styles EXCEPT
                            !.width = IF styles.width = Default
                                      THEN Value(measurement[1]) ELSE styles.width,
                            !.height = IF styles.height = Default
                                       THEN Value(measurement[2]) ELSE styles.height],
                        primitive |-> render_primitive,
                        valid_parent |-> parent_id, parent_layout |-> parent_layout]
               ELSE [m |-> m1, styles |-> styles, primitive |-> render_primitive,
                     valid_parent |-> parent_id, parent_layout |-> parent_layout]
       ELSE [m |-> m, styles |-> styles, primitive |-> render_primitive,
             valid_parent |-> None, parent_layout |-> None]

\* A parent-styles source that is the default baseline whatever the parent is.
parent_styles_baseline(m, dirty_node_index) == Style_new_default

\* The parent-styles source of render: resolved NodeRecord style, else the
\* parent widget's raw declared style, else the default baseline.
\* The parent styles with the parent widget's declared style preferred to the
\* parent's resolved NodeRecord style.
parent_styles_declared_first(m, dirty_node_index) ==
    IF dirty_node_index \in DOMAIN m.tree.parents
    THEN LET parent_widget_id == m.tree.parents[dirty_node_index]
             parent == m.current_widgets[parent_widget_id]
         IN IF IsSome(parent) /\ IsSome(Unwrap(parent).styles)
            THEN Unwrap(Unwrap(parent).styles)
            ELSE IF IsSome(m.nodes[parent_widget_id])
                 THEN Unwrap(m.nodes[parent_widget_id]).resolved_styles
                 ELSE Style_new_default
    ELSE Style_new_default

parent_styles_of(m, dirty_node_index) ==
    IF dirty_node_index \in DOMAIN m.tree.parents
    THEN LET parent_widget_id == m.tree.parents[dirty_node_index]
         IN IF IsSome(m.nodes[parent_widget_id])
            THEN Unwrap(m.nodes[parent_widget_id]).resolved_styles
            ELSE IF IsSome(m.current_widgets[parent_widget_id])
                 THEN LET styles == Unwrap(m.current_widgets[parent_widget_id]).styles
                      IN IF IsSome(styles) THEN Unwrap(styles) ELSE Style_new_default
                 ELSE Style_new_default
    ELSE Style_new_default

\* A parent z that is -1 whatever the parent is.
parent_z_unresolved(m, dirty_node_index) == -1

\* The parent z of render: the parent NodeRecord's z, else -1.
parent_z_of(m, dirty_node_index) ==
    IF dirty_node_index \in DOMAIN m.tree.parents
    THEN LET parent_widget_id == m.tree.parents[dirty_node_index]
         IN IF IsSome(m.nodes[parent_widget_id])
            THEN Unwrap(m.nodes[parent_widget_id]).z
            ELSE -1
    ELSE -1

\* The body of render's loop for one drained identity (the widget is in its
\* slot): cascade, primitive, NodeRecord.  obs is what the step saw and
\* stored: the cascaded and the stored style, the parent's NodeRecord and
\* widget as they were, the z it assigned and the top-level counter around it.
render_node(m, dirty_node_index, font) ==
    LET dirty_widget == Unwrap(m.current_widgets[dirty_node_index])
        parent_styles == parent_styles_of(m, dirty_node_index)
        parent_z == parent_z_of(m, dirty_node_index)
        current_z == IF parent_z > -1 THEN parent_z + 1 ELSE m.current_z
        m1 == IF parent_z > -1 THEN m ELSE [m EXCEPT !.current_z = m.current_z + 1]
        raw_styles == dirty_widget.styles
        styles0 == IF IsSome(raw_styles) THEN Unwrap(raw_styles) ELSE Style_default
        styles == Style_inherit(Style_apply(styles0, Style_initial), parent_styles)
        built == create_primitive(m1, dirty_node_index, styles, font)
        children == IF dirty_node_index \in DOMAIN m.tree.children
                    THEN m.tree.children[dirty_node_index] ELSE << >>
        node == [id |-> dirty_node_index,
                 resolved_styles |-> built.styles,
                 raw_styles |-> raw_styles,
                 children |-> children,
                 primitive |-> built.primitive,
                 z |-> current_z]
    IN [m |-> [built.m EXCEPT !.nodes[dirty_node_index] = Some(node)],
        obs |-> [id |-> dirty_node_index,
                 cascaded |-> styles,
                 kind |-> built.primitive.kind,
                 font |-> font,
                 valid_parent |-> built.valid_parent,
                 parent_layout |-> built.parent_layout,
                 stored |-> built.styles,
                 raw_styles |-> raw_styles,
                 parent_styles |-> parent_styles,
                 parent_node |-> IF dirty_node_index \in DOMAIN m.tree.parents
                                 THEN m.nodes[m.tree.parents[dirty_node_index]]
                                 ELSE None,
                 parent_widget |-> IF dirty_node_index \in DOMAIN m.tree.parents
                                   THEN m.current_widgets[m.tree.parents[dirty_node_index]]
                                   ELSE None,
                 z |-> current_z,
                 counter_before |-> m.current_z,
                 counter_after |-> m1.current_z]]

\* render's loop over the drained identities, in drain order.  Unwrapping the
\* widget of a drained identity whose slot is empty panics.
RECURSIVE render_loop(_, _, _, _)
render_loop(m, nodes, font, trace) ==
    IF nodes = << >>
    THEN [m |-> m, panic |-> FALSE, trace |-> trace]
    ELSE IF m.current_widgets[Head(nodes)] = None
         THEN [m |-> m, panic |-> TRUE, trace |-> trace]
         ELSE LET r == render_node(m, Head(nodes), font)
              IN render_loop(r.m, Tail(nodes), font, Append(trace, r.obs))

\* The focus half of build_nodes_tree without the restoring of the old focus.
build_focus_tree_no_restore(m) ==
    LET n == Len(m.current_widgets)
        cleared == FocusTree_clear(m.focus_tree)
    IN [cleared EXCEPT !.ids = {1} \cup {i \in 2..n : get_focusable(m, i) = Some(TRUE)}]

\* The focus half of build_nodes_tree: remember the focus, clear the focus
\* tree, add the root and every identity marked focusable, and focus the old
\* identity again when the rebuilt tree contains it.
build_focus_tree(m) ==
    LET n == Len(m.current_widgets)
        old_focus == m.focus_tree.current_focus
        cleared == FocusTree_clear(m.focus_tree)
        rebuilt == [cleared EXCEPT
                      !.ids = {1} \cup {i \in 2..n : get_focusable(m, i) = Some(TRUE)}]
    IN IF IsSome(old_focus) /\ FocusTree_contains(rebuilt, Unwrap(old_focus))
       THEN FocusTree_focus(rebuilt, Unwrap(old_focus))
       ELSE rebuilt

\* The tree half of build_nodes_tree: the root is the arena's first identity;
\* every other identity whose declared style is renderable gets its valid
\* children and, when there is one, its valid parent.
build_nodes_tree_tree(m) ==
    LET n == Len(m.current_widgets)
        renderable == {i \in 2..n : declares_renderable(Unwrap(m.current_widgets[i]))}
    IN [root_node |-> Some(1),
        children |-> [i \in {1} \cup renderable |-> get_valid_node_children(m, i)],
        parents |-> [i \in {j \in renderable : IsSome(get_valid_parent(m, j))} |->
                        Unwrap(get_valid_parent(m, i))]]

\* build_nodes_tree: panics on an empty arena and on a non-root identity
\* whose widget is out of its slot.
build_nodes_tree(m) ==
    IF Len(m.current_widgets) = 0
       \/ \E i \in 2..Len(m.current_widgets) : m.current_widgets[i] = None
    THEN [panic |-> TRUE, tree |-> Tree_default, m |-> m]
    ELSE [panic |-> FALSE,
          tree |-> build_nodes_tree_tree(m),
          m |-> [m EXCEPT !.focus_tree = build_focus_tree(m)]]

\* render that leaves the render-dirty set as it was.
render_no_drain(m, font) ==
    LET looped == render_loop(m, m.dirty_render_nodes, font, << >>)
        built == build_nodes_tree(looped.m)
    IN IF looped.panic \/ built.panic
       THEN [m |-> m, panic |-> TRUE, trace |-> looped.trace]
       ELSE [m |-> [built.m EXCEPT !.node_tree = built.tree],
             panic |-> FALSE, trace |-> looped.trace]

\* render: drain the render-dirty set, process each drained identity, then
\* rebuild the renderable tree and the focus tree.
render(m, font) ==
    LET nodes == m.dirty_render_nodes
        drained == [m EXCEPT !.dirty_render_nodes = << >>]
        looped == render_loop(drained, nodes, font, << >>)
        built == build_nodes_tree(looped.m)
    IN IF looped.panic \/ built.panic
       THEN [m |-> m, panic |-> TRUE, trace |-> looped.trace]
       ELSE [m |-> [built.m EXCEPT !.node_tree = built.tree],
             panic |-> FALSE, trace |-> looped.trace]

\* calculate_layout (morphorm::layout): the solver writes a rect for every
\* node of the renderable tree; here all of them get the same size.
calculate_layout(m, size) ==
    [m EXCEPT !.layout_cache.rect =
        [id \in DOMAIN m.layout_cache.rect |->
            IF id \in DOMAIN m.node_tree.children \/ Some(id) = m.node_tree.root_node
            THEN size ELSE m.layout_cache.rect[id]]]

----------------------------------------------------------------------------
(* The primitive sequencer.  A sequenced primitive is [id, kind, z]: the   *)
(* identity whose NodeRecord it comes from, its variant and the z-index    *)
(* stamped on its layout, in tenths.                                       *)

RenderPrimitive_Empty == [id |-> 0, kind |-> "Empty", z |-> 0]

\* recurse_node_tree_to_build_primitives.  children_from is the position in
\* the node's children the loop has reached; main_z_index and prev_clip are
\* the loop's mutable locals.
RECURSIVE recurse_children(_, _, _, _, _, _, _)
RECURSIVE recurse_node_tree_to_build_primitives(_, _, _, _)

\* The children loop without the reset of the running z-index after a child.
recurse_children_accumulating(m, children, children_from, main_z_index, prev_clip, new_prev_clip, layout_z) ==
    IF children_from > Len(children)
    THEN << >>
    ELSE LET sub == recurse_node_tree_to_build_primitives(
                        m, children[children_from], main_z_index + 10, new_prev_clip)
             reset == [prev_clip EXCEPT !.z = layout_z + 1]
         IN IF prev_clip.kind = "Clip"
            THEN sub \o <<reset>>
                 \o recurse_children(m, children, children_from + 1, main_z_index + 10,
                                     reset, new_prev_clip, layout_z)
            ELSE sub
                 \o recurse_children(m, children, children_from + 1, main_z_index + 10,
                                     prev_clip, new_prev_clip, layout_z)

\* The traversal with a clip that is active at its own node only and is not
\* carried into the subtrees below its children.
recurse_node_tree_own_clip_only(m, current_node, main_z_index, prev_clip) ==
    IF IsSome(m.nodes[current_node]) /\ current_node \in DOMAIN m.layout_cache.rect
    THEN LET node == Unwrap(m.nodes[current_node])
             new_z_index == IF node.primitive.kind = "Clip"
                            THEN main_z_index - 1 ELSE main_z_index
             render_primitive == [id |-> current_node, kind |-> node.primitive.kind,
                                  z |-> new_z_index]
             new_prev_clip == IF render_primitive.kind = "Clip"
                              THEN render_primitive ELSE RenderPrimitive_Empty
         IN <<render_primitive>>
            \o (IF current_node \in DOMAIN m.node_tree.children
                THEN recurse_children(m, m.node_tree.children[current_node], 1,
                                      main_z_index, new_prev_clip, new_prev_clip,
                                      new_z_index)
                ELSE << >>)
    ELSE << >>

recurse_children(m, children, children_from, main_z_index, prev_clip, new_prev_clip, layout_z) ==
    IF children_from > Len(children)
    THEN << >>
    ELSE LET sub == recurse_node_tree_to_build_primitives(
                        m, children[children_from], main_z_index + 10, new_prev_clip)
             reset == [prev_clip EXCEPT !.z = layout_z + 1]
         IN IF prev_clip.kind = "Clip"
            THEN sub \o <<reset>>
                 \o recurse_children(m, children, children_from + 1, layout_z,
                                     reset, new_prev_clip, layout_z)
            ELSE sub
                 \o recurse_children(m, children, children_from + 1, layout_z,
                                     prev_clip, new_prev_clip, layout_z)

recurse_node_tree_to_build_primitives(m, current_node, main_z_index, prev_clip) ==
    IF IsSome(m.nodes[current_node]) /\ current_node \in DOMAIN m.layout_cache.rect
    THEN LET node == Unwrap(m.nodes[current_node])
             new_z_index == IF node.primitive.kind = "Clip"
                            THEN main_z_index - 1 ELSE main_z_index
             render_primitive == [id |-> current_node, kind |-> node.primitive.kind,
                                  z |-> new_z_index]
             new_prev_clip == IF render_primitive.kind = "Clip"
                              THEN render_primitive ELSE prev_clip
         IN <<render_primitive>>
            \o (IF current_node \in DOMAIN m.node_tree.children
                THEN recurse_children(m, m.node_tree.children[current_node], 1,
                                      main_z_index, new_prev_clip, new_prev_clip,
                                      new_z_index)
                ELSE << >>)
    ELSE << >>

\* build_render_primitives that enters the root with a running z-index of 1.0.
build_render_primitives_from_one(m) ==
    IF m.node_tree.root_node = None
    THEN << >>
    ELSE recurse_node_tree_to_build_primitives(
             m, Unwrap(m.node_tree.root_node), 10, RenderPrimitive_Empty)

\* build_render_primitives: nothing without a root, else the traversal from
\* the root with a running z-index of 0 and no active clip.
build_render_primitives(m) ==
    IF m.node_tree.root_node = None
    THEN << >>
    ELSE recurse_node_tree_to_build_primitives(
             m, Unwrap(m.node_tree.root_node), 0, RenderPrimitive_Empty)

----------------------------------------------------------------------------
(* Inputs.                                                                 *)

\* the top-level z counter stops the render pass at MaxZ
MaxZ == 2

QuadStyle == MkStyle(Value("Quad"), Default, Default)

EmptyStyle == MkStyle(Value("Empty"), Default, Default)

ClipStyle == MkStyle(Value("Clip"), Default, Default)

\* Widgets of the lifecycle specification: one without a declared style, one Quad.
WidgetsCore == {MkWidget(None, None), MkWidget(Some(QuadStyle), None)}

----------------------------------------------------------------------------
(* Actions: one per operation of the manager.                              *)

\* No thread holds the lock of dirty_nodes (the Mutex of line 28), no callback
\* is running, no render pass is in progress, no callback has completed.
Threads_idle == [lock |-> None, callback |-> None, nodes |-> None, fired |-> {}]

Init ==
    /\ wm = WidgetManager_new
    /\ held = {}
    /\ assets = FALSE
    /\ panicked = FALSE
    /\ last = [op |-> "new"]
    /\ issued = EmptyMap
    /\ threads = Threads_idle

\* create_widget(index, widget, parent).  The parent is None or an identity of
\* the arena; index is not read when parent is None.  c bounds the inputs:
\* c.W the widgets, c.I the indices, c.N the arena's size, c.multiRoot whether
\* a parentless call is made on a non-empty arena, c.late whether identities
\* are still created after the first render pass, c.D the render-dirty marks
\* that may be pending when a slot is updated in place, c.track whether the
\* history variable issued is kept.
CreateWidget(c) ==
    /\ ~panicked
    /\ \E index \in c.I, widget \in c.W, keepRoot \in BOOLEAN,
          parent \in {None} \cup {Some(p) : p \in Ids(wm)} :
        /\ parent = None => (index = 0 /\ (c.multiRoot \/ Len(wm.current_widgets) = 0))
        /\ ~keepRoot => (parent = None /\ IsSome(wm.tree.root_node))
        /\ LET r == create_widget(wm, index, widget, parent, keepRoot)
               key == <<parent, index>>
           IN /\ r.created => /\ Len(wm.current_widgets) < c.N
                              /\ c.late \/ wm.node_tree.root_node = None
              /\ ~r.created => Len(wm.dirty_render_nodes) < c.D
              /\ wm' = r.m
              /\ panicked' = r.panic
              /\ last' = [op |-> "create_widget", index |-> index, parent |-> parent,
                          ret |-> r.ret, created |-> r.created,
                          first |-> key \notin DOMAIN issued, panic |-> r.panic]
              /\ issued' = IF c.track /\ IsSome(parent) /\ ~r.panic /\ key \notin DOMAIN issued
                           THEN MapPut(issued, key, r.ret)
                           ELSE issued
              /\ UNCHANGED <<held, assets, threads>>

\* take(id) by a caller, who then holds the widget.
Take ==
    /\ ~panicked
    /\ \E id \in Ids(wm) :
        LET r == take(wm, id)
        IN /\ r.panic \/ Cardinality(held) < MaxHeld
           /\ wm' = r.m
           /\ panicked' = r.panic
           /\ held' = IF r.panic THEN held ELSE held \cup {Unwrap(r.ret)}
           /\ last' = [op |-> "take", id |-> id, ret |-> r.ret, panic |-> r.panic]
           /\ UNCHANGED <<assets, issued, threads>>

\* repossess(widget) of a widget a caller holds.
Repossess ==
    /\ ~panicked
    /\ \E widget \in held :
        /\ wm' = repossess(wm, widget)
        /\ held' = held \ {widget}
        /\ last' = [op |-> "repossess", id |-> widget.id, widget |-> widget]
        /\ UNCHANGED <<assets, panicked, issued, threads>>

\* render(assets).  With observe the trace keeps what each step of the loop
\* saw and stored, else only the identity it processed.
Render(observe) ==
    /\ ~panicked
    /\ wm.current_z < MaxZ
    /\ LET r == render(wm, assets)
       IN /\ wm' = r.m
          /\ panicked' = r.panic
          /\ last' = [op |-> "render", panic |-> r.panic,
                      drained |-> wm.dirty_render_nodes,
                      trace |-> IF observe THEN r.trace
                                ELSE [i \in DOMAIN r.trace |-> [id |-> r.trace[i].id]],
                      old_focus |-> wm.focus_tree.current_focus,
                      old_focus_ids |-> wm.focus_tree.ids]
          /\ UNCHANGED <<held, assets, issued, threads>>

Next ==
    \/ CreateWidget([W |-> WidgetsCore, I |-> 0..MaxIndex, N |-> MaxWidgets,
                     multiRoot |-> TRUE, late |-> TRUE, D |-> MaxWidgets + 1,
                     track |-> TRUE])
    \/ Render(FALSE)

Spec == Init /\ [][Next]_vars

----------------------------------------------------------------------------
(* Claims checked under Spec.                                              *)

\* C1 (identity stability): every create_widget(i, widget, Some(P)) returns
\* the identity the first call at (P, i) returned, and a repeated call at
\* (P, i) allocates no arena slot.
C1_IdentityStability ==
    (last.op = "create_widget" /\ ~last.panic /\ IsSome(last.parent)) =>
        /\ last.ret = issued[<<last.parent, last.index>>]
        /\ ~last.first => ~last.created

\* C2 (in-place update marks render-dirty): right after a create_widget call
\* that replaced the widget of an occupied slot, the returned identity is in
\* the render-dirty set.
C2_UpdateMarksRenderDirty ==
    (last.op = "create_widget" /\ ~last.panic /\ ~last.created) =>
        last.ret \in Range(wm.dirty_render_nodes)

\* C2's case: a widget at (P, 0) was rendered (it has a NodeRecord, and the
\* pass drained the set), then a different widget was put at (P, 0).
C2_Witness ==
    /\ last.op = "create_widget" /\ ~last.panic /\ ~last.created
    /\ last.index = 0
    /\ IsSome(wm.nodes[last.ret])
    /\ Unwrap(wm.nodes[last.ret]).raw_styles # Unwrap(wm.current_widgets[last.ret]).styles
    /\ wm.dirty_render_nodes = <<last.ret>>

\* The identities a render pass processed, in order.
Processed(trace) == [i \in DOMAIN trace |-> trace[i].id]

\* C3 (drain exactness): a render pass that returns has processed exactly the
\* identities that were render-dirty when it started, each once, and none of
\* them is render-dirty when it returns; no other operation removes an
\* identity from the render-dirty set.
C3_DrainExactness ==
    [][ IF last'.op = "render"
        THEN ~panicked' =>
                /\ Processed(last'.trace) = wm.dirty_render_nodes
                /\ Cardinality(Range(Processed(last'.trace))) = Len(last'.trace)
                /\ Range(wm'.dirty_render_nodes) \cap Range(Processed(last'.trace)) = {}
        ELSE Range(wm.dirty_render_nodes) \subseteq Range(wm'.dirty_render_nodes)
      ]_vars

\* C3's case: a pass drained two identities, and one was marked again after it.
C3_Witness ==
    /\ last.op = "create_widget" /\ ~last.created /\ ~last.panic
    /\ wm.dirty_render_nodes = <<last.ret>>
    /\ \A i \in Ids(wm) : IsSome(wm.nodes[i])
    /\ Len(wm.nodes) >= 2

\* widgets created in the ownership specification
MaxTakeWidgets == 2

\* The ownership specification: widgets are created, replaced in place and
\* rendered while callers take and repossess them.
NextTake ==
    \/ CreateWidget([W |-> WidgetsCore, I |-> 0..MaxIndex, N |-> MaxTakeWidgets,
                     multiRoot |-> FALSE, late |-> TRUE, D |-> MaxTakeWidgets + 1,
                     track |-> FALSE])
    \/ Take
    \/ Repossess
    \/ Render(FALSE)

SpecTake == Init /\ [][NextTake]_vars

\* C4 (exclusive take): take on an occupied slot empties it and returns its
\* widget; take on an empty slot panics; an empty slot stays empty until a
\* repossess, which fills the slot of the widget's id again.
C4_ExclusiveTake ==
    [][ /\ last'.op = "take" =>
              IF IsSome(wm.current_widgets[last'.id])
              THEN /\ ~panicked'
                   /\ wm'.current_widgets[last'.id] = None
                   /\ last'.ret = wm.current_widgets[last'.id]
              ELSE panicked' /\ wm' = wm
        /\ last'.op = "repossess" =>
              /\ wm.current_widgets[last'.id] = None
              /\ wm'.current_widgets[last'.id] = Some(last'.widget)
        /\ last'.op # "repossess" =>
              \A i \in Ids(wm) :
                  wm.current_widgets[i] = None => wm'.current_widgets[i] = None
      ]_vars

\* C4's case: the widget was taken, repossessed, taken again, and then taken
\* once more without a repossess, which panicked.
C4_Witness ==
    /\ last.op = "take" /\ last.panic
    /\ panicked
    /\ wm.current_widgets[last.id] = None
    /\ \E w \in held : w.id = last.id
    /\ IsSome(wm.nodes[last.id])

\* C10 (hierarchy well-formedness): once a widget exists, exactly one identity
\* has no parent entry, it is the first-created one and the tree's root, and
\* every other identity occurs exactly once in the children of its parent.
C10_HierarchyWellFormed ==
    Len(wm.current_widgets) >= 1 =>
        /\ {i \in Ids(wm) : i \notin DOMAIN wm.tree.parents} = {1}
        /\ wm.tree.root_node = Some(1)
        /\ \A i \in Ids(wm) \ {1} :
              /\ i \in DOMAIN wm.tree.parents
              /\ wm.tree.parents[i] \in DOMAIN wm.tree.children
              /\ LET siblings == wm.tree.children[wm.tree.parents[i]]
                 IN Cardinality({k \in DOMAIN siblings : siblings[k] = i}) = 1

----------------------------------------------------------------------------
(* The renderable tree: flattening and valid parents.                      *)

\* widgets created in the tree specification
MaxTreeWidgets == 4
\* render-dirty marks pending when a slot is updated in place
MaxPending == 1

\* Widgets of the tree specification: no declared style, Empty, Quad.
WidgetsTree ==
    {MkWidget(None, None), MkWidget(Some(EmptyStyle), None), MkWidget(Some(QuadStyle), None)}

NextTree ==
    \/ CreateWidget([W |-> WidgetsTree, I |-> 0..MaxIndex, N |-> MaxTreeWidgets,
                     multiRoot |-> FALSE, late |-> FALSE, D |-> MaxPending,
                     track |-> FALSE])
    \/ Render(FALSE)

SpecTree == Init /\ [][NextTree]_vars

\* The full-tree ancestors of an identity.
RECURSIVE AncestorsOf(_, _)
AncestorsOf(m, id) ==
    IF id \in DOMAIN m.tree.parents
    THEN {m.tree.parents[id]} \cup AncestorsOf(m, m.tree.parents[id])
    ELSE {}

\* The full tree below an identity, in depth-first pre-order.
RECURSIVE Preorder(_, _)
Preorder(m, id) ==
    <<id>> \o (IF id \in DOMAIN m.tree.children
               THEN Concat([k \in DOMAIN m.tree.children[id] |->
                               Preorder(m, m.tree.children[id][k])])
               ELSE << >>)

PositionIn(s, x) == CHOOSE k \in DOMAIN s : s[k] = x

\* The widget of the identity is in its slot and declares no renderable style.
EmptyStyled(m, id) ==
    IsSome(m.current_widgets[id]) /\ ~declares_renderable(Unwrap(m.current_widgets[id]))

\* The identity occurs somewhere in tree t.
OccursIn(t, id) ==
    \/ t.root_node = Some(id)
    \/ id \in DOMAIN t.children
    \/ id \in DOMAIN t.parents
    \/ \E k \in DOMAIN t.children : id \in Range(t.children[k])
    \/ \E k \in DOMAIN t.parents : t.parents[k] = id

\* The renderable descendants of a that are reached through Empty widgets only.
FlatDescendants(m, a) ==
    {d \in Ids(m) : /\ a \in AncestorsOf(m, d)
                    /\ ~EmptyStyled(m, d)
                    /\ \A b \in AncestorsOf(m, d) :
                          a \in AncestorsOf(m, b) => EmptyStyled(m, b)}

\* The renderable tree lists under a exactly FlatDescendants(a), each once,
\* in full-tree order.
ListsFlatDescendants(m, a) ==
    /\ a \in DOMAIN m.node_tree.children
    /\ LET listed == m.node_tree.children[a]
           order == Preorder(m, a)
       IN /\ Range(listed) = FlatDescendants(m, a)
          /\ Cardinality(Range(listed)) = Len(listed)
          /\ \A i, j \in DOMAIN listed :
                i < j => PositionIn(order, listed[i]) < PositionIn(order, listed[j])

\* C5 as claimed (flattening): after a render pass no identity whose style is
\* Empty or undeclared occurs in the renderable tree, its root included, and
\* every renderable identity lists its flattened descendants.
C5_FlatteningNoEmptyAnywhere ==
    (last.op = "render" /\ ~last.panic) =>
        /\ \A i \in Ids(wm) : EmptyStyled(wm, i) => ~OccursIn(wm.node_tree, i)
        /\ \A a \in Ids(wm) : ~EmptyStyled(wm, a) => ListsFlatDescendants(wm, a)

\* C5 amended: the first-created identity is the renderable tree's root and a
\* key of its children whatever its style; no other identity whose style is
\* Empty or undeclared occurs in the renderable tree; the root and every
\* renderable identity list their flattened descendants in full-tree order.
C5_Flattening ==
    (last.op = "render" /\ ~last.panic) =>
        /\ wm.node_tree.root_node = Some(1)
        /\ \A i \in Ids(wm) \ {1} : EmptyStyled(wm, i) => ~OccursIn(wm.node_tree, i)
        /\ 1 \notin DOMAIN wm.node_tree.parents
        /\ EmptyStyled(wm, 1) =>
              /\ \A k \in DOMAIN wm.node_tree.children : 1 \notin Range(wm.node_tree.children[k])
              /\ \A k \in DOMAIN wm.node_tree.parents : wm.node_tree.parents[k] # 1
        /\ \A a \in Ids(wm) : (a = 1 \/ ~EmptyStyled(wm, a)) => ListsFlatDescendants(wm, a)

\* C5's case: a chain of two Empty widgets under the root ends in a renderable
\* identity, which the renderable tree lists under the root.
C5_Witness ==
    /\ last.op = "render" /\ ~last.panic
    /\ \E e1, e2, d \in Ids(wm) :
          /\ EmptyStyled(wm, e1) /\ EmptyStyled(wm, e2) /\ ~EmptyStyled(wm, d)
          /\ ~EmptyStyled(wm, 1)
          /\ e1 \in DOMAIN wm.tree.parents /\ wm.tree.parents[e1] = 1
          /\ e2 \in DOMAIN wm.tree.parents /\ wm.tree.parents[e2] = e1
          /\ d \in DOMAIN wm.tree.parents /\ wm.tree.parents[d] = e2
          /\ d \in Range(wm.node_tree.children[1])

\* An ancestor get_valid_parent may return: it has a NodeRecord whose resolved
\* render command is not Empty.
Qualifies(m, a) ==
    IsSome(m.nodes[a]) /\ resolve(Unwrap(m.nodes[a]).resolved_styles.render_command) # "Empty"

----------------------------------------------------------------------------
(* Focus.                                                                  *)

\* widgets created in the focus specification
MaxFocusWidgets == 3

\* Widgets of the focus specification: a Quad with each declared focusability.
WidgetsFocus == {MkWidget(Some(QuadStyle), f) : f \in {None, Some(TRUE), Some(FALSE)}}

\* FocusTree::focus(id) on an identity of the focus tree, by an input handler.
Focus ==
    /\ ~panicked
    /\ \E id \in wm.focus_tree.ids :
        /\ wm' = [wm EXCEPT !.focus_tree = FocusTree_focus(wm.focus_tree, id)]
        /\ last' = [op |-> "focus", id |-> id]
        /\ UNCHANGED <<held, assets, panicked, issued, threads>>

NextFocus ==
    \/ CreateWidget([W |-> WidgetsFocus, I |-> 0..MaxIndex, N |-> MaxFocusWidgets,
                     multiRoot |-> FALSE, late |-> TRUE, D |-> MaxFocusWidgets + 1,
                     track |-> FALSE])
    \/ Render(FALSE)
    \/ Focus

SpecFocus == Init /\ [][NextFocus]_vars

\* C7 (focus preservation): after a render pass, when the rebuilt focus tree
\* holds the same identities as before, the focus is what it was; when the
\* identity that had the focus is not in the rebuilt focus tree, nothing has
\* the focus.
C7_FocusPreservation ==
    (last.op = "render" /\ ~last.panic) =>
        /\ wm.focus_tree.ids = last.old_focus_ids =>
              wm.focus_tree.current_focus = last.old_focus
        /\ (IsSome(last.old_focus) /\ Unwrap(last.old_focus) \notin wm.focus_tree.ids) =>
              wm.focus_tree.current_focus = None

\* C7's case: a non-root identity had the focus, the pass rebuilt the same
\* focus tree, and the identity still has the focus.
C7_Witness ==
    /\ last.op = "render" /\ ~last.panic
    /\ IsSome(last.old_focus) /\ Unwrap(last.old_focus) # 1
    /\ wm.focus_tree.ids = last.old_focus_ids
    /\ wm.focus_tree.current_focus = last.old_focus

\* C7's other case: the identity that had the focus left the focus tree.
C7_WitnessCleared ==
    /\ last.op = "render" /\ ~last.panic
    /\ IsSome(last.old_focus) /\ Unwrap(last.old_focus) \notin wm.focus_tree.ids
    /\ wm.focus_tree.current_focus = None

----------------------------------------------------------------------------
(* The primitive sequencer.                                                *)

\* widgets created in the sequencer specification
MaxSeqWidgets == 5

\* Widgets of the sequencer specification: a Quad and a Clip.
WidgetsSeq == {MkWidget(Some(QuadStyle), None), MkWidget(Some(ClipStyle), None)}

\* build_render_primitives(): reads the manager and returns the sequence.
BuildRenderPrimitives ==
    /\ ~panicked
    /\ last' = [op |-> "build_render_primitives", out |-> build_render_primitives(wm)]
    /\ UNCHANGED <<wm, held, assets, panicked, issued, threads>>

NextSeq ==
    \/ CreateWidget([W |-> WidgetsSeq, I |-> 0..MaxIndex, N |-> MaxSeqWidgets,
                     multiRoot |-> FALSE, late |-> FALSE, D |-> 0, track |-> FALSE])
    \/ Render(FALSE)
    \/ BuildRenderPrimitives

SpecSeq == Init /\ [][NextSeq]_vars

\* The identities below c in the renderable tree.
RECURSIVE NodeDescendants(_, _)
NodeDescendants(m, c) ==
    IF c \in DOMAIN m.node_tree.children
    THEN UNION {{d} \cup NodeDescendants(m, d) : d \in Range(m.node_tree.children[c])}
    ELSE {}

\* Scenario C: in the renderable tree n has the Clip child c, directly
\* followed by the sibling s; c has exactly the descendants d1 and d2, d1 first.
ClipScenario(m, n, c, d1, d2, s) ==
    /\ n \in DOMAIN m.node_tree.children
    /\ \E k \in DOMAIN m.node_tree.children[n] :
          /\ m.node_tree.children[n][k] = c
          /\ k + 1 \in DOMAIN m.node_tree.children[n]
          /\ m.node_tree.children[n][k + 1] = s
    /\ Unwrap(m.nodes[c]).primitive.kind = "Clip"
    /\ d1 # d2
    /\ NodeDescendants(m, c) = {d1, d2}
    /\ m.node_tree.children[c][1] = d1

\* C8 (clip reset scenario): in scenario C the sequence holds, in this order,
\* c's primitive, d1's, d2's, a reset copy of c's clip primitive whose z-index
\* is greater than the one stamped on d2, and s's primitive.
C8_ClipResetScenario ==
    last.op = "build_render_primitives" =>
        \A n, c, d1, d2, s \in Ids(wm) :
            ClipScenario(wm, n, c, d1, d2, s) =>
                \E pc, pd1, pd2, pr, ps \in DOMAIN last.out :
                    /\ pc < pd1 /\ pd1 < pd2 /\ pd2 < pr /\ pr < ps
                    /\ last.out[pc].id = c /\ last.out[pc].kind = "Clip"
                    /\ last.out[pd1].id = d1
                    /\ last.out[pd2].id = d2
                    /\ last.out[pr].id = c /\ last.out[pr].kind = "Clip"
                    /\ last.out[pr].z > last.out[pd2].z
                    /\ last.out[ps].id = s

----------------------------------------------------------------------------
(* Text auto-sizing.                                                       *)

\* widgets created in the text specification
MaxTextWidgets == 2

\* Widgets of the text specification: a Quad, and a Text with neither, only
\* the width, or only the height set.
WidgetsText ==
    {MkWidget(Some(QuadStyle), None),
     MkWidget(Some(MkStyle(Value("Text"), Default, Default)), None),
     MkWidget(Some(MkStyle(Value("Text"), Value(50), Default)), None),
     MkWidget(Some(MkStyle(Value("Text"), Default, Value(30))), None)}

\* The sizes the layout solver hands out.
Sizes == {<<200, 100>>, <<40, 100>>}

\* calculate_layout().
CalculateLayout ==
    /\ ~panicked
    /\ \E size \in Sizes :
        /\ wm' = calculate_layout(wm, size)
        /\ last' = [op |-> "calculate_layout", size |-> size]
        /\ UNCHANGED <<held, assets, panicked, issued, threads>>

\* The font asset finishes loading.
LoadFont ==
    /\ ~panicked
    /\ ~assets
    /\ assets' = TRUE
    /\ last' = [op |-> "load_font"]
    /\ UNCHANGED <<wm, held, panicked, issued, threads>>

NextText ==
    \/ CreateWidget([W |-> WidgetsText, I |-> 0..MaxIndex, N |-> MaxTextWidgets,
                     multiRoot |-> FALSE, late |-> FALSE, D |-> MaxPending,
                     track |-> FALSE])
    \/ Render(TRUE)
    \/ CalculateLayout
    \/ LoadFont

SpecText == Init /\ [][NextText]_vars

\* C9 (text auto-sizing): for every Text identity a render pass processed,
\* when the font was loaded and the nearest valid parent had a layout rect,
\* the stored width and height are the measured pixels where the cascade left
\* them unset and the cascade's values where it set them; otherwise the stored
\* style is the cascade's; the pass did not panic on the missing data.
C9_TextAutoSizing ==
    last.op = "render" =>
        \A k \in DOMAIN last.trace :
            LET o == last.trace[k]
            IN o.kind = "Text" =>
                /\ ~last.panic
                /\ Unwrap(wm.nodes[o.id]).resolved_styles = o.stored
                /\ IF o.font /\ IsSome(o.valid_parent) /\ IsSome(o.parent_layout)
                   THEN LET measured == font_measure(Unwrap(o.parent_layout))
                        IN /\ o.stored.width = IF o.cascaded.width = Default
                                               THEN Value(measured[1])
                                               ELSE o.cascaded.width
                           /\ o.stored.height = IF o.cascaded.height = Default
                                                THEN Value(measured[2])
                                                ELSE o.cascaded.height
                           /\ o.stored.render_command = o.cascaded.render_command
                   ELSE o.stored = o.cascaded

\* C9's case (scenario A): a Text with width and height unset, under a parent
\* whose layout rect is 200 x 100, is stored with width 80 and height 20.
C9_Witness ==
    /\ last.op = "render" /\ ~last.panic
    /\ \E k \in DOMAIN last.trace :
          LET o == last.trace[k]
          IN /\ o.kind = "Text" /\ o.font
             /\ o.cascaded.width = Default /\ o.cascaded.height = Default
             /\ o.parent_layout = Some(<<200, 100>>)
             /\ Unwrap(wm.nodes[o.id]).resolved_styles.width = Value(80)
             /\ Unwrap(wm.nodes[o.id]).resolved_styles.height = Value(20)

----------------------------------------------------------------------------
(* dirty(force).                                                           *)

\* IndexSet::insert of each element of xs, in order.
RECURSIVE IndexSetInsertAll(_, _)
IndexSetInsertAll(s, xs) ==
    IF xs = << >> THEN s ELSE IndexSetInsertAll(IndexSetInsert(s, Head(xs)), Tail(xs))

\* The arena's indices in iteration order.
ArenaIter(m) == [i \in 1..Len(m.current_widgets) |-> i]

\* dirty that marks the root only, whatever force is.
dirty_root_only(m, force) ==
    IF m.tree.root_node = None
    THEN [m |-> m, panic |-> TRUE]
    ELSE [m |-> [m EXCEPT !.dirty_nodes =
                     IndexSetInsert(m.dirty_nodes, Unwrap(m.tree.root_node))],
          panic |-> FALSE]

\* dirty(force), run with the lock of dirty_nodes held: insert the root
\* (unwrapping a missing root panics) and, when force, every index of the
\* arena into dirty_nodes and dirty_render_nodes.  The lock is poisoned only
\* by a panic under it, after which nothing runs, so lock() is always Ok.
dirty(m, force) ==
    IF m.tree.root_node = None
    THEN [m |-> m, panic |-> TRUE]
    ELSE LET rooted == IndexSetInsert(m.dirty_nodes, Unwrap(m.tree.root_node))
         IN [m |-> IF force
                   THEN [m EXCEPT
                           !.dirty_nodes = IndexSetInsertAll(rooted, ArenaIter(m)),
                           !.dirty_render_nodes =
                               IndexSetInsertAll(m.dirty_render_nodes, ArenaIter(m))]
                   ELSE [m EXCEPT !.dirty_nodes = rooted],
             panic |-> FALSE]

\* dirty(force) by the frame thread; it waits while a callback holds the lock.
Dirty ==
    /\ ~panicked
    /\ threads.lock = None
    /\ threads.nodes = None
    /\ \E force \in BOOLEAN :
        LET r == dirty(wm, force)
        IN /\ wm' = r.m
           /\ panicked' = r.panic
           /\ last' = [op |-> "dirty", force |-> force, panic |-> r.panic]
           /\ UNCHANGED <<held, assets, issued, threads>>

\* widgets created in the invalidation specification
MaxDirtyWidgets == 3

NextDirty ==
    \/ CreateWidget([W |-> WidgetsCore, I |-> 0..MaxIndex, N |-> MaxDirtyWidgets,
                     multiRoot |-> FALSE, late |-> TRUE, D |-> MaxPending,
                     track |-> FALSE])
    \/ Render(FALSE)
    \/ Dirty

SpecDirty == Init /\ [][NextDirty]_vars

\* C11 (mark-all-dirty): a dirty(force) that returns has the root in
\* dirty_nodes; with force every identity of the arena is in dirty_nodes and
\* in dirty_render_nodes; without force dirty_nodes gains the root at most and
\* dirty_render_nodes is as it was; no mark is lost and nothing else changes.
C11_MarkAllDirty ==
    [][ (last'.op = "dirty" /\ ~panicked') =>
          /\ IsSome(wm.tree.root_node)
          /\ Unwrap(wm.tree.root_node) \in Range(wm'.dirty_nodes)
          /\ Range(wm.dirty_nodes) \subseteq Range(wm'.dirty_nodes)
          /\ Range(wm.dirty_render_nodes) \subseteq Range(wm'.dirty_render_nodes)
          /\ last'.force =>
                /\ Ids(wm) \subseteq Range(wm'.dirty_nodes)
                /\ Ids(wm) \subseteq Range(wm'.dirty_render_nodes)
          /\ ~last'.force =>
                /\ Range(wm'.dirty_nodes) =
                       Range(wm.dirty_nodes) \cup {Unwrap(wm.tree.root_node)}
                /\ wm'.dirty_render_nodes = wm.dirty_render_nodes
          /\ wm' = [wm EXCEPT !.dirty_nodes = wm'.dirty_nodes,
                              !.dirty_render_nodes = wm'.dirty_render_nodes]
      ]_vars

\* C11's case: dirty(true) on an arena of three rendered identities, none of
\* them marked before, marks all three in both sets.
C11_Witness ==
    /\ last.op = "dirty" /\ last.force /\ ~panicked
    /\ Len(wm.current_widgets) = 3
    /\ \A i \in Ids(wm) : IsSome(wm.nodes[i])
    /\ wm.dirty_nodes = <<1, 2, 3>>
    /\ wm.dirty_render_nodes = <<1, 2, 3>>

----------------------------------------------------------------------------
(* The cascade and the z-depth of a render pass.                           *)

\* widgets created in the cascade specification
MaxCascadeWidgets == 3

\* Widgets of the cascade specification: a Quad with a width, a widget that
\* inherits its render command and its width, and one without a declared style.
WidgetsCascade ==
    {MkWidget(Some(MkStyle(Value("Quad"), Value(50), Default)), None),
     MkWidget(Some(MkStyle(Inherit, Inherit, Default)), None),
     MkWidget(None, None)}

NextCascade ==
    \/ CreateWidget([W |-> WidgetsCascade, I |-> 0..MaxIndex, N |-> MaxCascadeWidgets,
                     multiRoot |-> TRUE, late |-> FALSE, D |-> MaxPending,
                     track |-> FALSE])
    \/ Render(TRUE)

SpecCascade == Init /\ [][NextCascade]_vars

\* The style a step of the loop cascades: the declared one, else an empty one.
DeclaredOrEmpty(o) == IF IsSome(o.raw_styles) THEN Unwrap(o.raw_styles) ELSE Style_default

\* The parent-style source of a step: the parent's resolved style, else the
\* parent widget's declared style, else the default baseline.
ParentSource(o) ==
    IF IsSome(o.parent_node)
    THEN Unwrap(o.parent_node).resolved_styles
    ELSE IF IsSome(o.parent_widget) /\ IsSome(Unwrap(o.parent_widget).styles)
         THEN Unwrap(Unwrap(o.parent_widget).styles)
         ELSE Style_new_default

\* C12 as claimed (cascade invariant): in every NodeRecord a render pass
\* stored no property is unset or inherit-marked, every property the widget
\* left unset holds the initial-value baseline and every property it marked
\* inherit holds a concrete value of the parent-style source.
C12_CascadeNothingUnset ==
    (last.op = "render" /\ ~last.panic) =>
        \A k \in DOMAIN last.trace :
            LET o == last.trace[k]
                stored == Unwrap(wm.nodes[o.id]).resolved_styles
            IN \A p \in StyleProps :
                  /\ stored[p] # Default /\ stored[p] # Inherit
                  /\ DeclaredOrEmpty(o)[p] = Default => stored[p] = Style_initial[p]
                  /\ DeclaredOrEmpty(o)[p] = Inherit => stored[p] = ParentSource(o)[p]

\* C12 amended: in every NodeRecord a render pass stored no property is
\* inherit-marked; a property the widget left unset holds the initial-value
\* baseline's entry, which is unset for width and height; a property it
\* marked inherit holds the parent-style source's entry, unset when the source
\* has it unset; a property it set holds that value; a render command is
\* stored unset only when it was inherited.
C12_Cascade ==
    (last.op = "render" /\ ~last.panic) =>
        \A k \in DOMAIN last.trace :
            LET o == last.trace[k]
                stored == Unwrap(wm.nodes[o.id]).resolved_styles
            IN /\ o.kind # "Text" => stored = o.cascaded
               /\ stored.render_command = Default =>
                      DeclaredOrEmpty(o).render_command = Inherit
               /\ \A p \in StyleProps :
                     /\ stored[p] # Inherit
                     /\ DeclaredOrEmpty(o)[p] = Default => o.cascaded[p] = Style_initial[p]
                     /\ DeclaredOrEmpty(o)[p] = Inherit => o.cascaded[p] = ParentSource(o)[p]
                     /\ DeclaredOrEmpty(o)[p][1] = "Value" => o.cascaded[p] = DeclaredOrEmpty(o)[p]

\* C12's case: an identity that inherits its render command and width from a
\* resolved Quad parent is stored as a Quad of width 50 with its height unset.
C12_Witness ==
    /\ last.op = "render" /\ ~last.panic
    /\ \E k \in DOMAIN last.trace :
          LET o == last.trace[k]
          IN /\ IsSome(o.raw_styles)
             /\ Unwrap(o.raw_styles).render_command = Inherit
             /\ IsSome(o.parent_node)
             /\ Unwrap(wm.nodes[o.id]).resolved_styles =
                    MkStyle(Value("Quad"), Value(50), Default)

\* C15 (z-depth assignment): a step of the render loop whose identity has a
\* parent with a NodeRecord of z >= 0 stores that z plus 1 and leaves the
\* top-level counter alone; any other step stores the counter's value and
\* raises the counter by 1; the steps of a pass hand the counter on to each
\* other; no operation lowers the counter.
C15_ZDepthAssignment ==
    [][ /\ wm'.current_z >= wm.current_z
        /\ (last'.op = "render" /\ ~panicked') =>
              LET trace == last'.trace
              IN /\ \A k \in DOMAIN trace :
                      LET o == trace[k]
                      IN /\ IF IsSome(o.parent_node) /\ Unwrap(o.parent_node).z >= 0
                            THEN /\ o.z = Unwrap(o.parent_node).z + 1
                                 /\ o.counter_after = o.counter_before
                            ELSE /\ o.z = o.counter_before
                                 /\ o.counter_after = o.counter_before + 1
                         /\ Unwrap(wm'.nodes[o.id]).z = o.z
                         /\ o.counter_before = IF k = 1 THEN wm.current_z
                                               ELSE trace[k - 1].counter_after
                 /\ wm'.current_z = IF trace = << >> THEN wm.current_z
                                    ELSE trace[Len(trace)].counter_after
      ]_vars

\* C15's case: one pass processed two parentless identities, which took the
\* counter's values 0 and 1, and a child of the second, stored at z 2.
C15_Witness ==
    /\ last.op = "render" /\ ~last.panic
    /\ Len(last.trace) = 3
    /\ last.trace[1].parent_node = None /\ last.trace[1].z = 0
    /\ last.trace[2].parent_node = None /\ last.trace[2].z = 1
    /\ IsSome(last.trace[3].parent_node) /\ last.trace[3].z = 2
    /\ wm.current_z = 2

\* ------------------------------------------------------------------------
\* Reading the output of build_render_primitives
\* ------------------------------------------------------------------------

\* The position of the first element of out that carries the identity id: the
\* primitive emitted for the node itself (reset copies come after it).
FirstPos(out, id) ==
    CHOOSE k \in DOMAIN out : out[k].id = id /\ \A j \in 1..(k - 1) : out[j].id # id

InOutput(out, id) == \E k \in DOMAIN out : out[k].id = id

\* The z-index stamped on the node's own primitive.
StampedZ(out, id) == out[FirstPos(out, id)].z

\* The running z-index the node was entered with: a Clip is stamped 0.1 below
\* it, any other primitive exactly at it.
EnteredZ(out, id) ==
    StampedZ(out, id) + (IF out[FirstPos(out, id)].kind = "Clip" THEN 1 ELSE 0)

\* C16 as stated (sibling z independence): every child of a node is entered
\* with one and the same running z-index, the node's own z plus 1.
C16_SiblingsSameZ ==
    last.op = "build_render_primitives" =>
        \A n \in DOMAIN wm.node_tree.children :
            InOutput(last.out, n) =>
                \E own \in {StampedZ(last.out, n), EnteredZ(last.out, n)} :
                    \A k \in DOMAIN wm.node_tree.children[n] :
                        EnteredZ(last.out, wm.node_tree.children[n][k]) = own + 10

\* C16 (sibling z independence, as the code has it): the first child of a
\* node is entered with the node's running z-index plus 1, every later child
\* with the z-index stamped on the node plus 1; no child's entry depends on
\* the depth of an earlier sibling's subtree.
C16_SiblingZIndependence ==
    last.op = "build_render_primitives" =>
        \A n \in DOMAIN wm.node_tree.children :
            InOutput(last.out, n) =>
                \A k \in DOMAIN wm.node_tree.children[n] :
                    EnteredZ(last.out, wm.node_tree.children[n][k]) =
                        IF k = 1 THEN EnteredZ(last.out, n) + 10
                                 ELSE StampedZ(last.out, n) + 10

\* C16's case: a node with two children, the first of which has a child of
\* its own, so that the traversal went two levels down before the second
\* sibling was entered.
C16_Witness ==
    /\ last.op = "build_render_primitives"
    /\ \E n \in DOMAIN wm.node_tree.children :
          LET ch == wm.node_tree.children[n]
          IN /\ InOutput(last.out, n)
             /\ Len(ch) = 2
             /\ ch[1] \in DOMAIN wm.node_tree.children
             /\ wm.node_tree.children[ch[1]] # << >>
             /\ InOutput(last.out, wm.node_tree.children[ch[1]][1])
             /\ EnteredZ(last.out, wm.node_tree.children[ch[1]][1])
                    > EnteredZ(last.out, ch[2])

\* The elements of out that are the first to carry their identity, in order:
\* the output with the reset copies left aside.
RECURSIVE FirstOccurrences(_, _)
FirstOccurrences(out, seen) ==
    IF out = << >>
    THEN << >>
    ELSE IF Head(out).id \in seen
         THEN FirstOccurrences(Tail(out), seen)
         ELSE <<Head(out)>> \o FirstOccurrences(Tail(out), seen \cup {Head(out).id})

\* Depth-first pre-order of the renderable tree below and including n, the
\* children in their stored order.
RECURSIVE NodePreorder(_, _)
RECURSIVE NodePreorderOfList(_, _)
NodePreorderOfList(t, list) ==
    IF list = << >>
    THEN << >>
    ELSE NodePreorder(t, Head(list)) \o NodePreorderOfList(t, Tail(list))

NodePreorder(t, n) ==
    <<n>> \o (IF n \in DOMAIN t.children THEN NodePreorderOfList(t, t.children[n])
              ELSE << >>)

\* C17 (sequencer traversal): without a root the output is empty; otherwise,
\* leaving reset copies aside, the output lists every renderable-tree node
\* with a NodeRecord and a layout rect exactly once, in depth-first pre-order
\* with the children in stored order; the root is entered with running z 0;
\* each primitive is the node's, a Clip stamped 0.1 below the running z, any
\* other primitive at it, where a child's running z is 1 above the z of its
\* parent; everything else in the output is a reset copy of a Clip.
C17_SequencerTraversal ==
    last.op = "build_render_primitives" =>
        IF wm.node_tree.root_node = None
        THEN last.out = << >>
        ELSE LET out == last.out
                 root == Unwrap(wm.node_tree.root_node)
                 firsts == FirstOccurrences(out, {})
                 order == NodePreorder(wm.node_tree, root)
             IN /\ \A n \in Range(order) :
                      IsSome(wm.nodes[n]) /\ n \in DOMAIN wm.layout_cache.rect
                /\ [i \in DOMAIN firsts |-> firsts[i].id] = order
                /\ \A i, j \in DOMAIN order : order[i] = order[j] => i = j
                /\ EnteredZ(out, root) = 0
                /\ \A i \in DOMAIN firsts :
                      LET n == firsts[i].id
                      IN /\ firsts[i].kind = Unwrap(wm.nodes[n]).primitive.kind
                         /\ n # root =>
                               \E p \in DOMAIN wm.node_tree.children :
                                  /\ n \in Range(wm.node_tree.children[p])
                                  /\ EnteredZ(out, n) \in
                                        {EnteredZ(out, p) + 10, StampedZ(out, p) + 10}
                         /\ firsts[i].z = EnteredZ(out, n) -
                                 (IF firsts[i].kind = "Clip" THEN 1 ELSE 0)
                /\ \A k \in DOMAIN out :
                      (\E j \in 1..(k - 1) : out[j].id = out[k].id) =>
                          out[k].kind = "Clip"

\* C17's case: a renderable tree of four nodes on three levels, one of them a
\* Clip that is not the root, has been sequenced.
C17_Witness ==
    /\ last.op = "build_render_primitives"
    /\ IsSome(wm.node_tree.root_node)
    /\ LET order == NodePreorder(wm.node_tree, Unwrap(wm.node_tree.root_node))
       IN /\ Len(order) >= 4
          /\ \E n \in Range(order) :
                /\ n # Unwrap(wm.node_tree.root_node)
                /\ Unwrap(wm.nodes[n]).primitive.kind = "Clip"
                /\ n \in DOMAIN wm.node_tree.children
                /\ Len(wm.node_tree.children[n]) >= 1
          /\ \E n \in Range(order) :
                StampedZ(last.out, n) >= 19

\* The node whose stored child list holds n in the renderable tree.
TraversalParent(t, n) == CHOOSE p \in DOMAIN t.children : n \in Range(t.children[p])

HasTraversalParent(t, n) == \E p \in DOMAIN t.children : n \in Range(t.children[p])

\* The clip active at node n: n itself when its primitive is a Clip, else the
\* clip active at its parent; None when no node up to the root is a Clip.
RECURSIVE ActiveClipAt(_, _)
ActiveClipAt(m, n) ==
    IF Unwrap(m.nodes[n]).primitive.kind = "Clip"
    THEN Some(n)
    ELSE IF HasTraversalParent(m.node_tree, n)
         THEN ActiveClipAt(m, TraversalParent(m.node_tree, n))
         ELSE None

\* The number of output elements the visit of n accounts for: its primitive,
\* its children's visits, and one reset copy per child when a clip is active.
RECURSIVE SubtreeLen(_, _)
RECURSIVE SubtreeLenOfList(_, _, _)
SubtreeLenOfList(m, list, perChild) ==
    IF list = << >>
    THEN 0
    ELSE SubtreeLen(m, Head(list)) + perChild + SubtreeLenOfList(m, Tail(list), perChild)

SubtreeLen(m, n) ==
    1 + (IF n \in DOMAIN m.node_tree.children
         THEN SubtreeLenOfList(m, m.node_tree.children[n],
                               IF IsSome(ActiveClipAt(m, n)) THEN 1 ELSE 0)
         ELSE 0)

\* C18 (clip reset marker): the element that follows the subtree of each
\* child of a node is a copy of the clip active at that node, with the z
\* stamped on the node plus 0.1, exactly when a clip is active there (the
\* node's own, else the nearest inherited one); otherwise the next sibling
\* follows directly, and the output holds no other elements.
C18_ClipResetMarker ==
    (last.op = "build_render_primitives" /\ IsSome(wm.node_tree.root_node)) =>
        LET out == last.out
            t == wm.node_tree
            root == Unwrap(t.root_node)
        IN /\ FirstPos(out, root) = 1
           /\ Len(out) = SubtreeLen(wm, root)
           /\ \A n \in DOMAIN t.children :
                 \A k \in DOMAIN t.children[n] :
                    LET child == t.children[n][k]
                        start == FirstPos(out, child)
                        after == start + SubtreeLen(wm, child)
                        clip == ActiveClipAt(wm, n)
                        first == IF k = 1 THEN FirstPos(out, n) + 1
                                 ELSE FirstPos(out, t.children[n][k - 1])
                                      + SubtreeLen(wm, t.children[n][k - 1])
                                      + (IF IsSome(clip) THEN 1 ELSE 0)
                    IN /\ start = first
                       /\ IsSome(clip) =>
                             /\ after \in DOMAIN out
                             /\ out[after] = [id |-> Unwrap(clip), kind |-> "Clip",
                                              z |-> StampedZ(out, n) + 1]
                       /\ (~IsSome(clip) /\ after \in DOMAIN out) =>
                             out[after].id \notin {out[j].id : j \in 1..(after - 1)}

\* C18's case: an outer Clip whose child is an inner Clip with a child of its
\* own; the inner Clip's copy follows that child and the outer Clip's copy
\* follows the inner Clip's subtree; elsewhere in the same tree a node with no
\* active clip has a child that no copy follows.
C18_Witness ==
    /\ last.op = "build_render_primitives"
    /\ \E o, i, d \in DOMAIN wm.nodes :
          /\ InOutput(last.out, o) /\ InOutput(last.out, i) /\ InOutput(last.out, d)
          /\ ActiveClipAt(wm, o) = Some(o)
          /\ ActiveClipAt(wm, i) = Some(i)
          /\ o \in DOMAIN wm.node_tree.children /\ wm.node_tree.children[o] = <<i>>
          /\ i \in DOMAIN wm.node_tree.children /\ wm.node_tree.children[i] = <<d>>
          /\ LET p == FirstPos(last.out, d)
             IN /\ p + 2 \in DOMAIN last.out
                /\ last.out[p + 1].id = i
                /\ last.out[p + 2].id = o
    /\ \E n \in DOMAIN wm.node_tree.children :
          /\ InOutput(last.out, n)
          /\ wm.node_tree.children[n] # << >>
          /\ ActiveClipAt(wm, n) = None

\* ------------------------------------------------------------------------
\* Focus eligibility with more than one parentless create_widget call
\* ------------------------------------------------------------------------

MaxRootWidgets == 3

NextRoots ==
    \/ CreateWidget([W |-> WidgetsFocus, I |-> 0..MaxIndex, N |-> MaxRootWidgets,
                     multiRoot |-> TRUE, late |-> TRUE, D |-> MaxRootWidgets + 1,
                     track |-> FALSE])
    \/ Render(FALSE)

SpecRoots == Init /\ [][NextRoots]_vars

MaxBindWidgets == 2

\* Widgets of the binding specification: a Quad and a Text, which binds.
WidgetsBind ==
    {MkWidget(Some(QuadStyle), None),
     MkWidget(Some(MkStyle(Value("Text"), Default, Default)), None)}

\* The callback's insert with a list's push in place of the set's insert.
callback_push(m, id) == [m EXCEPT !.dirty_nodes = Append(m.dirty_nodes, id)]

\* The body of the callback registered by bind: dirty_nodes.insert(id).
callback_insert(m, id) == [m EXCEPT !.dirty_nodes = IndexSetInsert(m.dirty_nodes, id)]

\* A callback of a live subscription of identity id takes the lock.
CbLock ==
    /\ ~panicked
    /\ threads.lock = None
    /\ threads.callback = None
    /\ \E id \in wm.widget_lifetimes :
          threads' = [threads EXCEPT !.lock = Some("callback"),
                                     !.callback = Some([id |-> id, inserted |-> FALSE])]
    /\ UNCHANGED <<wm, held, assets, panicked, last, issued>>

\* The callback inserts its identity.
CbInsert ==
    /\ threads.lock = Some("callback")
    /\ IsSome(threads.callback) /\ ~Unwrap(threads.callback).inserted
    /\ wm' = callback_insert(wm, Unwrap(threads.callback).id)
    /\ threads' = [threads EXCEPT !.callback = Some([Unwrap(threads.callback)
                                                      EXCEPT !.inserted = TRUE])]
    /\ UNCHANGED <<held, assets, panicked, last, issued>>

\* The callback returns and its guard releases the lock.
CbUnlock ==
    /\ threads.lock = Some("callback")
    /\ IsSome(threads.callback) /\ Unwrap(threads.callback).inserted
    /\ threads' = [threads EXCEPT !.lock = None, !.callback = None,
                                  !.fired = @ \cup {Unwrap(threads.callback).id}]
    /\ UNCHANGED <<wm, held, assets, panicked, last, issued>>

\* dirty takes the lock; it waits while a callback holds it.
DirtyLock ==
    /\ ~panicked
    /\ threads.nodes = None
    /\ threads.lock = None
    /\ threads' = [threads EXCEPT !.lock = Some("dirty")]
    /\ UNCHANGED <<wm, held, assets, panicked, last, issued>>

\* dirty inserts under the lock and releases it.
DirtyRun ==
    /\ ~panicked
    /\ threads.lock = Some("dirty")
    /\ \E force \in BOOLEAN :
        LET r == dirty(wm, force)
        IN /\ wm' = r.m
           /\ panicked' = r.panic
           /\ last' = [op |-> "dirty", force |-> force, panic |-> r.panic]
           /\ threads' = [threads EXCEPT !.lock = None]
           /\ UNCHANGED <<held, assets, issued>>

\* render drains dirty_render_nodes into its local list.
RenderDrain ==
    /\ ~panicked
    /\ threads.nodes = None
    /\ threads.lock # Some("dirty")
    /\ wm.current_z < MaxZ
    /\ wm' = [wm EXCEPT !.dirty_render_nodes = << >>]
    /\ threads' = [threads EXCEPT !.nodes = Some(wm.dirty_render_nodes)]
    /\ last' = [op |-> "render_drain"]
    /\ UNCHANGED <<held, assets, panicked, issued>>

\* One iteration of render's loop.
RenderNode ==
    /\ ~panicked
    /\ IsSome(threads.nodes) /\ Unwrap(threads.nodes) # << >>
    /\ LET dirty_node_index == Head(Unwrap(threads.nodes))
       IN IF wm.current_widgets[dirty_node_index] = None
          THEN /\ panicked' = TRUE
               /\ UNCHANGED <<wm, threads>>
          ELSE /\ wm' = render_node(wm, dirty_node_index, assets).m
               /\ threads' = [threads EXCEPT !.nodes = Some(Tail(Unwrap(threads.nodes)))]
               /\ UNCHANGED panicked
    /\ last' = [op |-> "render_node"]
    /\ UNCHANGED <<held, assets, issued>>

\* The end of render: the renderable tree is rebuilt.
RenderBuild ==
    /\ ~panicked
    /\ threads.nodes = Some(<< >>)
    /\ LET built == build_nodes_tree(wm)
       IN IF built.panic
          THEN /\ panicked' = TRUE
               /\ UNCHANGED <<wm, threads>>
          ELSE /\ wm' = [built.m EXCEPT !.node_tree = built.tree]
               /\ threads' = [threads EXCEPT !.nodes = None]
               /\ UNCHANGED panicked
    /\ last' = [op |-> "render_build"]
    /\ UNCHANGED <<held, assets, issued>>

\* create_widget between the frame loop's other calls.
CreateWidgetBind ==
    /\ threads.nodes = None
    /\ threads.lock # Some("dirty")
    /\ CreateWidget([W |-> WidgetsBind, I |-> 0..MaxIndex, N |-> MaxBindWidgets,
                     multiRoot |-> FALSE, late |-> TRUE, D |-> MaxPending,
                     track |-> FALSE])

NextBind ==
    \/ CreateWidgetBind
    \/ RenderDrain
    \/ RenderNode
    \/ RenderBuild
    \/ DirtyLock
    \/ DirtyRun
    \/ CbLock
    \/ CbInsert
    \/ CbUnlock

\* The callbacks run on threads of their own: once started they finish,
\* whatever the frame loop does.
SpecBind == Init /\ [][NextBind]_vars /\ WF_vars(CbInsert) /\ WF_vars(CbUnlock)

\* C13 (subscription teardown on replacement): when create_widget has
\* replaced the widget at an occupied slot, no callback of a subscription
\* registered for that identity before the replacement starts any more: such
\* a callback would insert the identity into dirty_nodes.
C13_SubscriptionTeardown ==
    [][ ( /\ last.op = "create_widget" /\ ~last.created /\ ~last.panic
          /\ threads.callback = None
          /\ IsSome(threads'.callback) )
        => Unwrap(threads'.callback).id # last.ret ]_vars

\* C14 (concurrent invalidation): in every interleaving of the callbacks with
\* dirty(force) and with the steps of a render pass, every identity a
\* completed callback inserted is in dirty_nodes, and dirty_nodes holds no
\* identity twice; the lock has one holder at a time and render never is
\* one; a step of a callback changes nothing of the manager but dirty_nodes,
\* and a step of render leaves dirty_nodes and the lock alone; a callback
\* that has taken the lock finishes, whether or not the frame loop moves on.
C14_ConcurrentInvalidation ==
    /\ [](/\ threads.fired \subseteq Range(wm.dirty_nodes)
          /\ \A i, j \in DOMAIN wm.dirty_nodes :
                wm.dirty_nodes[i] = wm.dirty_nodes[j] => i = j
          /\ (threads.lock = Some("callback")) <=> IsSome(threads.callback)
          /\ IsSome(threads.nodes) => threads.lock # Some("dirty"))
    /\ [][ /\ threads'.callback # threads.callback =>
                /\ wm' = [wm EXCEPT !.dirty_nodes = wm'.dirty_nodes]
                /\ Range(wm'.dirty_nodes) \subseteq
                       Range(wm.dirty_nodes) \cup (IF IsSome(threads.callback)
                                                   THEN {Unwrap(threads.callback).id}
                                                   ELSE {})
                /\ UNCHANGED <<held, assets, panicked>>
           /\ threads'.nodes # threads.nodes =>
                /\ wm'.dirty_nodes = wm.dirty_nodes
                /\ threads'.lock = threads.lock
                /\ threads'.callback = threads.callback ]_vars
    /\ (IsSome(threads.callback) ~> threads.callback = None)

\* C14's case: a callback has completed while a render pass was in progress,
\* after dirty(true) had already put its identity into dirty_nodes.
C14_Witness ==
    /\ IsSome(threads.nodes) /\ Unwrap(threads.nodes) # << >>
    /\ threads.lock = None
    /\ threads.fired # {}
    /\ Len(wm.dirty_nodes) = 2
    /\ \E id \in threads.fired : wm.dirty_nodes[1] = id

\* ------------------------------------------------------------------------
\* widget.rs: WidgetParam::has_changed
\* ------------------------------------------------------------------------
\* The world has_changed reads: the entities that carry Mounted, the KStyle,
\* KChildren and Props components of the entities (None: the query's get
\* fails), the state entity widget_context.get_state gives for an entity and
\* the State component of the state entities.

Components == [{"current", "previous"} -> {None, Some("a"), Some("b")}]

\* The previous snapshot's values are fixed to "a": the comparisons only
\* tell equal from different.
ComponentPairs == {f \in Components : f["previous"] # Some("b")}

StateWorlds ==
    {[get_state |-> g, state |-> s] :
        g \in [{"current", "previous"} -> {None, Some("state_current"), Some("state_previous")}],
        s \in [{"state_current", "state_previous"} -> {None, Some("a"), Some("b")}]}

\* Each entity has a state entity of its own or none; a state entity that no
\* entity refers to carries nothing.
StatePairs ==
    {w \in StateWorlds :
        /\ w.get_state["current"] \in {None, Some("state_current")}
        /\ w.get_state["previous"] \in {None, Some("state_previous")}
        /\ w.get_state["current"] = None => w.state["state_current"] = None
        /\ w.get_state["previous"] = None => w.state["state_previous"] = None
        /\ w.state["state_previous"] # Some("b")}

Worlds ==
    {[mounted |-> m, style |-> st, children |-> ch, props |-> pr,
      get_state |-> sw.get_state, state |-> sw.state] :
        m \in SUBSET {"current", "other"},
        st \in ComponentPairs, ch \in ComponentPairs, pr \in ComponentPairs,
        sw \in StatePairs}

\* has_changed, test by test in the order of the code.
has_changed(w, current_entity, previous_entity) ==
    LET both(q) == IsSome(q[current_entity]) /\ IsSome(q[previous_entity])
        previous_state_entity == w.get_state[previous_entity]
        current_state_entity == w.get_state[current_entity]
    IN IF w.mounted # {}
       THEN TRUE
       ELSE IF both(w.style) /\ w.style[current_entity] # w.style[previous_entity]
       THEN TRUE
       ELSE IF both(w.children) /\ w.children[current_entity] # w.children[previous_entity]
       THEN TRUE
       ELSE IF both(w.props) /\ w.props[previous_entity] # w.props[current_entity]
       THEN TRUE
       ELSE IF IsSome(current_state_entity) /\ previous_state_entity = None
       THEN TRUE
       ELSE IF IsSome(current_state_entity) /\ IsSome(previous_state_entity)
       THEN LET state == w.state[Unwrap(current_state_entity)]
                previous_state == w.state[Unwrap(previous_state_entity)]
            IN IsSome(state) /\ IsSome(previous_state) /\ previous_state # state
       ELSE FALSE

InitDiff ==
    /\ wm = WidgetManager_new
    /\ held = {}
    /\ assets = FALSE
    /\ panicked = FALSE
    /\ issued = EmptyMap
    /\ threads = Threads_idle
    /\ \E w \in Worlds : last = [op |-> "world", world |-> w]

\* widget_update: the host asks whether the current entity has changed
\* against its previous snapshot.
WidgetUpdate ==
    /\ last.op = "world"
    /\ last' = [op |-> "has_changed", world |-> last.world,
                ret |-> has_changed(last.world, "current", "previous")]
    /\ UNCHANGED <<wm, held, assets, panicked, issued, threads>>

NextDiff == WidgetUpdate

SpecDiff == InitDiff /\ [][NextDiff]_vars

\* What the claim counts as a change of the current entity: it was just
\* mounted, or its style, children or props differ from the previous
\* snapshot's, or its state does, state that was absent and is present
\* included.
EntityChanged(w) ==
    LET differ(q, a, b) == IsSome(q[a]) /\ IsSome(q[b]) /\ q[a] # q[b]
    IN \/ "current" \in w.mounted
       \/ differ(w.style, "current", "previous")
       \/ differ(w.children, "current", "previous")
       \/ differ(w.props, "current", "previous")
       \/ IsSome(w.get_state["current"]) /\ w.get_state["previous"] = None
       \/ /\ IsSome(w.get_state["current"]) /\ IsSome(w.get_state["previous"])
          /\ differ(w.state, "state_current", "state_previous")

\* C20 (host-diff signal is per identity): has_changed(current, previous) is
\* true exactly when the current entity was just mounted or its style,
\* children, props or state differ from the previous snapshot's; it is false
\* when none of these holds, whatever happened to other entities.
C20_HostDiffPerIdentity ==
    last.op = "has_changed" => (last.ret <=> EntityChanged(last.world))

\* ------------------------------------------------------------------------
\* render: the source of the inherited styles
\* ------------------------------------------------------------------------

\* C21 (parent-style source): for every identity a render pass processes, the
\* style used as the inheritance source is the parent's resolved NodeRecord
\* style when the parent has a NodeRecord, else the parent widget's declared
\* style when the widget is in its slot and declares one, else the default
\* baseline, which is also the source of an identity without a parent entry;
\* the loop processes every drained identity, none of the cases stops it.
C21_ParentStyleSource ==
    (last.op = "render") =>
        /\ Len(last.trace) = Len(last.drained)
        /\ \A k \in DOMAIN last.trace :
              LET o == last.trace[k]
              IN /\ o.id = last.drained[k]
                 /\ o.parent_styles =
                       IF IsSome(o.parent_node)
                       THEN Unwrap(o.parent_node).resolved_styles
                       ELSE IF IsSome(o.parent_widget)
                               /\ IsSome(Unwrap(o.parent_widget).styles)
                            THEN Unwrap(Unwrap(o.parent_widget).styles)
                            ELSE Style_new_default

\* C21's case: one pass processed an identity without a parent entry, whose
\* source was the default baseline, and a child whose parent had a NodeRecord
\* that differs from the style the parent widget declares.
C21_Witness ==
    /\ last.op = "render" /\ ~last.panic
    /\ \E k \in DOMAIN last.trace :
          /\ last.trace[k].parent_node = None
          /\ last.trace[k].parent_widget = None
          /\ last.trace[k].parent_styles = Style_new_default
    /\ \E k \in DOMAIN last.trace :
          LET o == last.trace[k]
          IN /\ IsSome(o.parent_node)
             /\ IsSome(o.parent_widget)
             /\ IsSome(Unwrap(o.parent_widget).styles)
             /\ Unwrap(o.parent_node).resolved_styles # Unwrap(Unwrap(o.parent_widget).styles)
             /\ o.parent_styles = Unwrap(o.parent_node).resolved_styles

\* ------------------------------------------------------------------------
\* render: the stored z against the parent's
\* ------------------------------------------------------------------------

\* C22 (stored z consistency): after every render pass every identity with a
\* parent entry that has a NodeRecord, and whose full-tree parent has one, is
\* stored at its parent's stored z plus 1, in whatever order create_widget,
\* in-place updates and dirty(true) filled dirty_render_nodes before the pass.
C22_StoredZConsistency ==
    (last.op = "render" /\ ~last.panic) =>
        \A i \in DOMAIN wm.tree.parents :
            (IsSome(wm.nodes[i]) /\ IsSome(wm.nodes[wm.tree.parents[i]])) =>
                Unwrap(wm.nodes[i]).z = Unwrap(wm.nodes[wm.tree.parents[i]]).z + 1

\* ------------------------------------------------------------------------
\* build_nodes_tree: the two maps of the renderable tree
\* ------------------------------------------------------------------------

\* C23 (renderable tree consistency): after every render pass an identity c
\* has the parent entry p in the renderable tree exactly when c is an element
\* of the children sequence of p, and every identity that some children
\* sequence lists, the root apart, has a parent entry.
C23_RenderableTreeConsistency ==
    (last.op = "render" /\ ~last.panic) =>
        LET t == wm.node_tree
        IN /\ \A c \in DOMAIN t.parents :
                 /\ t.parents[c] \in DOMAIN t.children
                 /\ c \in Range(t.children[t.parents[c]])
           /\ \A p \in DOMAIN t.children :
                 \A c \in Range(t.children[p]) :
                    Some(c) # t.root_node =>
                        /\ c \in DOMAIN t.parents
                        /\ t.parents[c] = p

============================================================================
